---------------------------- MODULE Spec2Model ----------------------------
(***************************************************************************)
(* Model of eat.py: per-function statistics over a Python syntax tree.     *)
(*                                                                         *)
(*   get_stats(node)      enumerates the function definitions of a module  *)
(*   collect_stats(node)  folds the classifier over ast.walk(node)         *)
(*   __main__             the reporting loop over the target files         *)
(*                                                                         *)
(* A syntax-tree node is a record [kind, name, id, attr, func]: kind is    *)
(* the name of its ast class, name the declared name of a definition, id   *)
(* the identifier of a Name, attr the attribute of an Attribute and func   *)
(* the callee of a Call (kind, id and attr of the callee node, which is    *)
(* itself a node of the tree).  A function definition also carries nodes,  *)
(* the listing of its proper descendants, i.e. what ast.walk yields after  *)
(* the definition itself.                                                  *)
(***************************************************************************)
EXTENDS Integers, Sequences, FiniteSets

VARIABLES
  node,      \* node[a]: the function definition handed to aggregation a
  result,    \* result[a]: the record collect_stats builds in aggregation a
  todo,      \* todo[a]: positions of ast.walk(node[a]) not yet visited
  pc,        \* pc[a]: "idle", "called", "walk" or "returned"
  returned,  \* returned[a]: the records the calls of aggregation a returned
  gs_node,   \* the node handed to get_stats
  results,   \* the list get_stats builds
  idx,       \* position of get_stats's loop in node.body
  gs_pc,     \* "idle", "called", "loop", "returned" or "raised"
  targets,   \* the files named on the command line
  mode,      \* "stats", "show", "list-calls" or "list-attrs"
  source,    \* source[t]: what get_ast makes of file t
  files,     \* files[p]: the file at path p, whether it exists and its lines
  pos,       \* position of the main loop in targets
  stats,     \* get_stats(tree) of the current target
  handle,    \* the path open for writing, "" when none is
  row,       \* position of the row loop in stats
  combined,  \* the names gathered by the two list modes
  stdout,    \* the lines printed so far
  main_pc    \* where the main block stands

cs_vars == <<node, result, todo, pc, returned>>
gs_vars == <<gs_node, results, idx, gs_pc>>
main_vars ==
  <<targets, mode, source, files, pos, stats, handle, row, combined,
    stdout, main_pc>>
vars == <<cs_vars, gs_vars, main_vars>>

----------------------------------------------------------------------------
(* Bounds *)

MaxNodes == 3

MaxParNodes == 1

MaxRuns == 2

MaxBody == 2

MaxTargets == 2

----------------------------------------------------------------------------
(* Syntax-tree nodes *)

Names == {"f", "g"}

NoRef == [kind |-> "", id |-> "", attr |-> ""]

Ref(n) == [kind |-> n.kind, id |-> n.id, attr |-> n.attr]

Plain(k) == [kind |-> k, name |-> "", id |-> "", attr |-> "", func |-> NoRef]

Def(k, nm) == [Plain(k) EXCEPT !.name = nm]

NameNode(x) == [Plain("Name") EXCEPT !.id = x]

AttributeNode(x) == [Plain("Attribute") EXCEPT !.attr = x]

CallNode(callee) == [Plain("Call") EXCEPT !.func = Ref(callee)]

\* the node classes the source names in its isinstance tests
FunctionDefs == {"FunctionDef", "AsyncFunctionDef"}
Assignments == {"Assign", "AugAssign", "AnnAssign"}
Comprehensions == {"ListComp", "SetComp", "DictComp"}
Loops == {"For", "AsyncFor", "While"}
Conditionals == {"If", "IfExp"}

\* node classes without a name, an identifier or a callee of their own
PlainKinds ==
  << "Return", "Assign", "AugAssign", "AnnAssign", "ListComp", "SetComp",
     "DictComp", "For", "AsyncFor", "While", "If", "IfExp", "Subscript" >>

\* every node a function's subtree is built from, in a fixed listing order
NodeSeq ==
  [i \in 1..Len(PlainKinds) |-> Plain(PlainKinds[i])]
  \o << Def("FunctionDef", "g"), Def("AsyncFunctionDef", "g"),
        Def("ClassDef", "g"),
        NameNode("f"), NameNode("g"),
        AttributeNode("f"), AttributeNode("g"),
        CallNode(NameNode("f")), CallNode(NameNode("g")),
        CallNode(AttributeNode("f")), CallNode(AttributeNode("g")),
        CallNode(Plain("Call")), CallNode(Plain("Subscript")) >>

\* the positions of the calls in s with callee c
CallsOf(s, c) == {i \in DOMAIN s : s[i].kind = "Call" /\ s[i].func = c}

\* every Call's callee is a node of the same subtree, and a chain of calls
\* of call results ends in a call of something else
CalleesPresent(s) ==
  /\ \A i \in DOMAIN s : s[i].kind = "Call" /\ s[i].func.kind # "Call" =>
        Cardinality(CallsOf(s, s[i].func))
          <= Cardinality({j \in DOMAIN s : Ref(s[j]) = s[i].func})
  /\ LET calls == {i \in DOMAIN s : s[i].kind = "Call"}
         inner == {i \in calls : s[i].func.kind = "Call"}
     IN inner # {} => Cardinality(inner) < Cardinality(calls)

\* the subtrees of at most n descendants; a subtree is listed in NodeSeq
\* order, the order of the listing carries no meaning
Subtrees(n) ==
  UNION {
    { [i \in 1..k |-> NodeSeq[ix[i]]] :
        ix \in { jx \in [1..k -> 1..Len(NodeSeq)] :
                   \A i \in 1..(k - 1) : jx[i] <= jx[i + 1] } }
    : k \in 0..n }

FunctionNodes(n) ==
  { [kind |-> k, name |-> nm, nodes |-> s] :
      k \in FunctionDefs, nm \in Names,
      s \in { t \in Subtrees(n) : CalleesPresent(t) } }

NoFunction == [kind |-> "", name |-> "", nodes |-> << >>]

\* ast.walk(node): the node itself, then all its descendants
ast_walk(fn) == << Def(fn.kind, fn.name) >> \o fn.nodes

----------------------------------------------------------------------------
(* collect_stats *)

COLUMNS ==
  << "name", "conditionals", "loops", "comprehensions", "assignments",
     "returns", "calls", "recursive_calls" >>

\* the empty result of collect_stats
EmptyResult(fn) ==
  [ name |-> fn.name, conditionals |-> 0, loops |-> 0, comprehensions |-> 0,
    assignments |-> 0, returns |-> 0, calls |-> 0, recursive_calls |-> 0,
    called_functions |-> {}, called_methods |-> {},
    resolved_attributes |-> {} ]

NoResult == [EmptyResult(NoFunction) EXCEPT !.name = "<none>"]

\* VisitCall with calls += 1 placed in the arm of the callees that are no Name
VisitCall_CountInArm(r, fn, child) ==
  IF child.func.kind = "Name"
  THEN LET r2 == IF child.func.id = fn.name
                 THEN [r EXCEPT !.recursive_calls = @ + 1]
                 ELSE r
       IN [r2 EXCEPT !.called_functions = @ \cup {child.func.id}]
  ELSE IF child.func.kind = "Attribute"
  THEN [r EXCEPT !.calls = @ + 1,
                 !.called_methods = @ \cup {child.func.attr}]
  ELSE [r EXCEPT !.calls = @ + 1]

\* VisitCall that also takes a method call of the function's name as recursive
VisitCall_MethodRecursion(r, fn, child) ==
  LET r1 == [r EXCEPT !.calls = @ + 1] IN
    IF child.func.kind = "Name"
    THEN LET r2 == IF child.func.id = fn.name
                   THEN [r1 EXCEPT !.recursive_calls = @ + 1]
                   ELSE r1
         IN [r2 EXCEPT !.called_functions = @ \cup {child.func.id}]
    ELSE IF child.func.kind = "Attribute"
    THEN LET r2 == IF child.func.attr = fn.name
                   THEN [r1 EXCEPT !.recursive_calls = @ + 1]
                   ELSE r1
         IN [r2 EXCEPT !.called_methods = @ \cup {child.func.attr}]
    ELSE r1

\* the Call branch of the loop body
VisitCall(r, fn, child) ==
  LET r1 == [r EXCEPT !.calls = @ + 1] IN
    IF child.func.kind = "Name"
    THEN LET r2 == IF child.func.id = fn.name
                   THEN [r1 EXCEPT !.recursive_calls = @ + 1]
                   ELSE r1
         IN [r2 EXCEPT !.called_functions = @ \cup {child.func.id}]
    ELSE IF child.func.kind = "Attribute"
    THEN [r1 EXCEPT !.called_methods = @ \cup {child.func.attr}]
    ELSE r1

\* VisitNode that leaves inline conditionals (IfExp) out of conditionals
VisitNode_NoIfExp(r, fn, child) ==
  IF child.kind = "Call" THEN VisitCall(r, fn, child)
  ELSE IF child.kind = "Attribute"
  THEN [r EXCEPT !.resolved_attributes = @ \cup {child.attr}]
  ELSE IF child.kind = "Return" THEN [r EXCEPT !.returns = @ + 1]
  ELSE IF child.kind \in Assignments THEN [r EXCEPT !.assignments = @ + 1]
  ELSE IF child.kind \in Comprehensions
  THEN [r EXCEPT !.comprehensions = @ + 1]
  ELSE IF child.kind \in Loops THEN [r EXCEPT !.loops = @ + 1]
  ELSE IF child.kind = "If" THEN [r EXCEPT !.conditionals = @ + 1]
  ELSE r

\* VisitNode that records an attribute only where it is not a called method
VisitNode_CalleeHidden(r, fn, child) ==
  IF child.kind = "Call" THEN VisitCall(r, fn, child)
  ELSE IF child.kind = "Attribute"
  THEN IF child.attr \in r.called_methods THEN r
       ELSE [r EXCEPT !.resolved_attributes = @ \cup {child.attr}]
  ELSE IF child.kind = "Return" THEN [r EXCEPT !.returns = @ + 1]
  ELSE IF child.kind \in Assignments THEN [r EXCEPT !.assignments = @ + 1]
  ELSE IF child.kind \in Comprehensions
  THEN [r EXCEPT !.comprehensions = @ + 1]
  ELSE IF child.kind \in Loops THEN [r EXCEPT !.loops = @ + 1]
  ELSE IF child.kind \in Conditionals THEN [r EXCEPT !.conditionals = @ + 1]
  ELSE r

\* one iteration of the loop over ast.walk(node)
VisitNode(r, fn, child) ==
  IF child.kind = "Call" THEN VisitCall(r, fn, child)
  ELSE IF child.kind = "Attribute"
  THEN [r EXCEPT !.resolved_attributes = @ \cup {child.attr}]
  ELSE IF child.kind = "Return" THEN [r EXCEPT !.returns = @ + 1]
  ELSE IF child.kind \in Assignments THEN [r EXCEPT !.assignments = @ + 1]
  ELSE IF child.kind \in Comprehensions
  THEN [r EXCEPT !.comprehensions = @ + 1]
  ELSE IF child.kind \in Loops THEN [r EXCEPT !.loops = @ + 1]
  ELSE IF child.kind \in Conditionals THEN [r EXCEPT !.conditionals = @ + 1]
  ELSE r

RECURSIVE Fold(_, _, _, _)
Fold(r, fn, w, i) ==
  IF i > Len(w) THEN r ELSE Fold(VisitNode(r, fn, w[i]), fn, w, i + 1)

\* collect_stats as a function of its argument
collect_stats(fn) == Fold(EmptyResult(fn), fn, ast_walk(fn), 1)

Aggs == {1, 2}

\* the call: create the empty result, the walk has yet to start
Enter(a) ==
  /\ pc[a] = "called"
  /\ result' = [result EXCEPT ![a] = EmptyResult(node[a])]
  /\ todo' = [todo EXCEPT ![a] = DOMAIN ast_walk(node[a])]
  /\ pc' = [pc EXCEPT ![a] = "walk"]
  /\ UNCHANGED <<node, returned, gs_vars, main_vars>>

\* Visit on one record shared by all aggregations
Visit_Shared(a) ==
  /\ pc[a] = "walk"
  /\ \E i \in todo[a] :
       /\ result' = [result EXCEPT
                       ![1] = VisitNode(@, node[a], ast_walk(node[a])[i])]
       /\ todo' = [todo EXCEPT ![a] = @ \ {i}]
  /\ UNCHANGED <<node, pc, returned, gs_vars, main_vars>>

\* the loop body on the next node the walk yields
Visit(a) ==
  /\ pc[a] = "walk"
  /\ \E i \in todo[a] :
       /\ result' = [result EXCEPT
                       ![a] = VisitNode(@, node[a], ast_walk(node[a])[i])]
       /\ todo' = [todo EXCEPT ![a] = @ \ {i}]
  /\ UNCHANGED <<node, pc, returned, gs_vars, main_vars>>

\* the walk is exhausted: return result
Return(a) ==
  /\ pc[a] = "walk"
  /\ todo[a] = {}
  /\ pc' = [pc EXCEPT ![a] = "returned"]
  /\ returned' = [returned EXCEPT ![a] = Append(@, result[a])]
  /\ UNCHANGED <<node, result, todo, gs_vars, main_vars>>

\* the caller aggregates the same function definition once more
Again(a) ==
  /\ pc[a] = "returned"
  /\ Len(returned[a]) < MaxRuns
  /\ pc' = [pc EXCEPT ![a] = "called"]
  /\ UNCHANGED <<node, result, todo, returned, gs_vars, main_vars>>

Idle == [a \in Aggs |-> "idle"]

NoTree ==
  [kind |-> "", has_body |-> FALSE, body_is_list |-> FALSE, body |-> << >>]

GsIdle ==
  /\ gs_node = NoTree
  /\ results = << >>
  /\ idx = 0
  /\ gs_pc = "idle"

Targets == {"a.py", "b.py"}

\* out = target + ".csv"
Csv == [t \in Targets |-> IF t = "a.py" THEN "a.py.csv" ELSE "b.py.csv"]

Paths == {Csv[t] : t \in Targets}

MainIdle ==
  /\ targets = << >>
  /\ mode = ""
  /\ source = [t \in Targets |-> [ok |-> FALSE, tree |-> NoTree]]
  /\ files = [p \in Paths |-> [exists |-> FALSE, lines |-> << >>]]
  /\ pos = 0
  /\ stats = << >>
  /\ handle = ""
  /\ row = 0
  /\ combined = {}
  /\ stdout = << >>
  /\ main_pc = "idle"

\* one call of collect_stats on any function definition
Init ==
  /\ \E fn \in FunctionNodes(MaxNodes) :
       node = [a \in Aggs |-> IF a = 1 THEN fn ELSE NoFunction]
  /\ result = [a \in Aggs |-> NoResult]
  /\ todo = [a \in Aggs |-> {}]
  /\ pc = [Idle EXCEPT ![1] = "called"]
  /\ returned = [a \in Aggs |-> << >>]
  /\ GsIdle
  /\ MainIdle

Next == Enter(1) \/ Visit(1) \/ Return(1)

Spec == Init /\ [][Next]_vars

\* def f(n): return 1 if n == 0 else n * f(n - 1)
Fact ==
  [kind |-> "FunctionDef", name |-> "f",
   nodes |-> << Plain("Return"), Plain("IfExp"), CallNode(NameNode("f")),
                NameNode("f") >>]

\* async def g(x): return x.g()
Bar ==
  [kind |-> "AsyncFunctionDef", name |-> "g",
   nodes |-> << Plain("Return"), CallNode(AttributeNode("g")),
                AttributeNode("g") >>]

\* def f(n): return f(n - 1)
Down ==
  [kind |-> "FunctionDef", name |-> "f",
   nodes |-> << Plain("Return"), CallNode(NameNode("f")), NameNode("f") >>]

\* two functions of one module, their aggregations running side by side
InitPar ==
  /\ \E fn \in FunctionNodes(MaxParNodes), other \in {Down, Bar} :
       node = [a \in Aggs |-> IF a = 1 THEN fn ELSE other]
  /\ result = [a \in Aggs |-> NoResult]
  /\ todo = [a \in Aggs |-> {}]
  /\ pc = [a \in Aggs |-> "called"]
  /\ returned = [a \in Aggs |-> << >>]
  /\ GsIdle
  /\ MainIdle

NextPar == \E a \in Aggs : Enter(a) \/ Visit(a) \/ Return(a) \/ Again(a)

SpecPar == InitPar /\ [][NextPar]_vars

----------------------------------------------------------------------------
(* get_stats *)

\* what a top-level statement of a module may hold beneath it
Insides ==
  { << >>,
    << Plain("Return") >>,
    << Def("FunctionDef", "f"), Plain("Return") >>,
    << Def("AsyncFunctionDef", "g") >>,
    << CallNode(NameNode("f")), NameNode("f") >> }

\* the statements of a module body: function definitions, and statements
\* of other classes, some of which hold function definitions beneath them
Statements ==
  { [kind |-> k, name |-> nm, nodes |-> s] :
      k \in FunctionDefs, nm \in Names, s \in Insides }
  \cup { [kind |-> "ClassDef", name |-> nm, nodes |-> s] :
           nm \in Names, s \in Insides }
  \cup { [kind |-> k, name |-> "", nodes |-> s] :
           k \in {"If", "Assign"}, s \in Insides }

Bodies(n) == UNION { [1..k -> Statements] : k \in 0..n }

\* a module (or another node with a statement list as its body)
WithBody(k, b) ==
  [kind |-> k, has_body |-> TRUE, body_is_list |-> TRUE, body |-> b]

\* a node of a class that has no body attribute
WithoutBody(k) ==
  [kind |-> k, has_body |-> FALSE, body_is_list |-> FALSE, body |-> << >>]

\* a node whose body attribute is a single expression node, not a list
ExprBody(k, e) ==
  [kind |-> k, has_body |-> TRUE, body_is_list |-> FALSE,
   body |-> << [kind |-> e.kind, name |-> "", nodes |-> << >>] >>]

GetStatsArgs(n) ==
  { WithBody("Module", b) : b \in Bodies(n) }
  \cup { WithoutBody(k) : k \in {"Name", "Return", "Assign", "Call"} }
  \cup { ExprBody(k, e) : k \in {"Lambda", "IfExp", "Expression"},
                          e \in {NameNode("f"), Plain("Subscript")} }

\* GsEnter without the hasattr test
GsEnter_NoTest ==
  /\ gs_pc = "called"
  /\ results' = << >>
  /\ idx' = 1
  /\ gs_pc' = "loop"
  /\ UNCHANGED <<gs_node, cs_vars, main_vars>>

\* results = []; if not hasattr(node, "body"): return results
GsEnter ==
  /\ gs_pc = "called"
  /\ results' = << >>
  /\ idx' = 1
  /\ gs_pc' = IF ~gs_node.has_body THEN "returned" ELSE "loop"
  /\ UNCHANGED <<gs_node, cs_vars, main_vars>>

\* for child in node.body: iter() of a node that is no sequence raises
GsRaise ==
  /\ gs_pc = "loop"
  /\ ~gs_node.body_is_list
  /\ gs_pc' = "raised"
  /\ UNCHANGED <<gs_node, results, idx, cs_vars, main_vars>>

\* GsIterate that takes FunctionDef only, no AsyncFunctionDef
GsIterate_SyncOnly ==
  /\ gs_pc = "loop"
  /\ gs_node.body_is_list
  /\ idx <= Len(gs_node.body)
  /\ LET child == gs_node.body[idx] IN
       results' = IF child.kind = "FunctionDef"
                  THEN Append(results, collect_stats(child))
                  ELSE results
  /\ idx' = idx + 1
  /\ UNCHANGED <<gs_node, gs_pc, cs_vars, main_vars>>

\* one iteration of the loop over node.body
GsIterate ==
  /\ gs_pc = "loop"
  /\ gs_node.body_is_list
  /\ idx <= Len(gs_node.body)
  /\ LET child == gs_node.body[idx] IN
       results' = IF child.kind \in FunctionDefs
                  THEN Append(results, collect_stats(child))
                  ELSE results
  /\ idx' = idx + 1
  /\ UNCHANGED <<gs_node, gs_pc, cs_vars, main_vars>>

\* the loop is over: return results
GsReturn ==
  /\ gs_pc = "loop"
  /\ gs_node.body_is_list
  /\ idx > Len(gs_node.body)
  /\ gs_pc' = "returned"
  /\ UNCHANGED <<gs_node, results, idx, cs_vars, main_vars>>

CsIdle ==
  /\ node = [a \in Aggs |-> NoFunction]
  /\ result = [a \in Aggs |-> NoResult]
  /\ todo = [a \in Aggs |-> {}]
  /\ pc = Idle
  /\ returned = [a \in Aggs |-> << >>]

\* one call of get_stats on any node
InitEnum ==
  /\ gs_node \in GetStatsArgs(MaxBody)
  /\ results = << >>
  /\ idx = 0
  /\ gs_pc = "called"
  /\ CsIdle
  /\ MainIdle

NextEnum == GsEnter \/ GsRaise \/ GsIterate \/ GsReturn

SpecEnum == InitEnum /\ [][NextEnum]_vars

\* get_stats as a function of a node with a statement list as its body
RECURSIVE get_stats_from(_, _)
get_stats_from(b, i) ==
  IF i > Len(b) THEN << >>
  ELSE IF b[i].kind \in FunctionDefs
  THEN << collect_stats(b[i]) >> \o get_stats_from(b, i + 1)
  ELSE get_stats_from(b, i + 1)

get_stats(n) == IF ~n.has_body THEN << >> ELSE get_stats_from(n.body, 1)

----------------------------------------------------------------------------
(* __main__ *)

Modes == {"stats", "show", "list-calls", "list-attrs"}

\* a module without statements
EmptyModule == WithBody("Module", << >>)

\* class g: def f(self): return   -- a method, no top-level function
ClassOnly ==
  WithBody("Module",
    << [kind |-> "ClassDef", name |-> "g",
        nodes |-> << Def("FunctionDef", "f"), Plain("Return") >>] >>)

OneFunction == WithBody("Module", << Fact >>)

TwoFunctions == WithBody("Module", << Fact, Bar >>)

\* get_ast(filename): the parsed module, or an exception out of open/parse
Parsed(m) == [ok |-> TRUE, tree |-> m]

Unreadable == [ok |-> FALSE, tree |-> NoTree]

Sources ==
  {Parsed(m) : m \in {EmptyModule, ClassOnly, OneFunction, TwoFunctions}}
  \cup {Unreadable}

\* the one line of a destination file that was there before the run
OldLine == << "old" >>

Old == [exists |-> TRUE, lines |-> << OldLine >>]

Absent == [exists |-> FALSE, lines |-> << >>]

\* str() of a count
str(n) == << "0", "1", "2", "3", "4", "5", "6", "7", "8", "9" >>[n + 1]

\* vals = [str(fs[c]) for c in COLUMNS]
Vals(fs) ==
  [c \in 1..Len(COLUMNS) |->
     IF c = 1 THEN fs[COLUMNS[c]] ELSE str(fs[COLUMNS[c]])]

Warning(t) ==
  [tag |-> "Warning: No functions found in file", arg |-> t,
   calls |-> {}, methods |-> {}, attrs |-> {}]

Error(p) ==
  [tag |-> "Error: file already exists. Aborting.", arg |-> p,
   calls |-> {}, methods |-> {}, attrs |-> {}]

FileLine(t) ==
  [tag |-> "File", arg |-> t, calls |-> {}, methods |-> {}, attrs |-> {}]

\* the lines show mode prints for one function; the three groups of names
\* come out in the iteration order of a set
FunctionLines(fs) ==
  [tag |-> "In function", arg |-> fs.name, calls |-> fs.called_functions,
   methods |-> fs.called_methods, attrs |-> fs.resolved_attributes]

NameLine(x) ==
  [tag |-> "", arg |-> x, calls |-> {}, methods |-> {}, attrs |-> {}]

\* '.' + mc
Dot == [x \in Names |-> IF x = "f" THEN ".f" ELSE ".g"]

\* sorted(combined)
Sorted(c) ==
  SelectSeq(<< ".f", ".g", "f", "g" >>, LAMBDA x : x \in c)

target == targets[pos]

out == Csv[target]

\* tree = get_ast(target); stats = get_stats(tree)
Load ==
  /\ main_pc = "loop"
  /\ pos <= Len(targets)
  /\ IF source[target].ok
     THEN /\ stats' = get_stats(source[target].tree)
          /\ main_pc' = "report"
     ELSE /\ stats' = stats
          /\ main_pc' = "raised"
  /\ UNCHANGED <<targets, mode, source, files, pos, handle, row, combined,
                 stdout, cs_vars, gs_vars>>

NextTarget ==
  /\ pos' = pos + 1
  /\ main_pc' = "loop"

\* StatsWarn that takes a file without functions for an error
StatsWarn_Fatal ==
  /\ main_pc = "report"
  /\ mode = "stats"
  /\ Len(stats) = 0
  /\ stdout' = Append(stdout, Warning(target))
  /\ main_pc' = "aborted"
  /\ UNCHANGED <<targets, mode, source, files, pos, stats, handle, row,
                 combined, cs_vars, gs_vars>>

\* stats mode, no functions: warn
StatsWarn ==
  /\ main_pc = "report"
  /\ mode = "stats"
  /\ Len(stats) = 0
  /\ stdout' = Append(stdout, Warning(target))
  /\ NextTarget
  /\ UNCHANGED <<targets, mode, source, files, stats, handle, row, combined,
                 cs_vars, gs_vars>>

\* stats mode, the destination exists: print the error and exit(1)
StatsAbort ==
  /\ main_pc = "report"
  /\ mode = "stats"
  /\ Len(stats) # 0
  /\ files[out].exists
  /\ stdout' = Append(stdout, Error(out))
  /\ main_pc' = "aborted"
  /\ UNCHANGED <<targets, mode, source, files, pos, stats, handle, row,
                 combined, cs_vars, gs_vars>>

\* StatsOpen without the test of os.path.exists before it
StatsOpen_NoTest ==
  /\ main_pc = "report"
  /\ mode = "stats"
  /\ Len(stats) # 0
  /\ files' = [files EXCEPT ![out] = [exists |-> TRUE, lines |-> << >>]]
  /\ handle' = out
  /\ main_pc' = "header"
  /\ UNCHANGED <<targets, mode, source, pos, stats, row, combined, stdout,
                 cs_vars, gs_vars>>

\* stats mode: open(out, 'w') creates the file, empty
StatsOpen ==
  /\ main_pc = "report"
  /\ mode = "stats"
  /\ Len(stats) # 0
  /\ ~files[out].exists
  /\ files' = [files EXCEPT ![out] = [exists |-> TRUE, lines |-> << >>]]
  /\ handle' = out
  /\ main_pc' = "header"
  /\ UNCHANGED <<targets, mode, source, pos, stats, row, combined, stdout,
                 cs_vars, gs_vars>>

\* fout.write(','.join(COLUMNS) + '\n')
StatsHeader ==
  /\ main_pc = "header"
  /\ files' = [files EXCEPT ![handle].lines = Append(@, COLUMNS)]
  /\ row' = 1
  /\ main_pc' = "rows"
  /\ UNCHANGED <<targets, mode, source, pos, stats, handle, combined, stdout,
                 cs_vars, gs_vars>>

\* StatsRow that steps over every second function
StatsRow_Skip ==
  /\ main_pc = "rows"
  /\ row <= Len(stats)
  /\ files' = [files EXCEPT ![handle].lines = Append(@, Vals(stats[row]))]
  /\ row' = row + 2
  /\ UNCHANGED <<targets, mode, source, pos, stats, handle, combined, stdout,
                 main_pc, cs_vars, gs_vars>>

\* one iteration of the loop over stats: write the row of one function
StatsRow ==
  /\ main_pc = "rows"
  /\ row <= Len(stats)
  /\ files' = [files EXCEPT ![handle].lines = Append(@, Vals(stats[row]))]
  /\ row' = row + 1
  /\ UNCHANGED <<targets, mode, source, pos, stats, handle, combined, stdout,
                 main_pc, cs_vars, gs_vars>>

\* the with block ends: the file is closed
StatsClose ==
  /\ main_pc = "rows"
  /\ row > Len(stats)
  /\ handle' = ""
  /\ NextTarget
  /\ UNCHANGED <<targets, mode, source, files, stats, row, combined, stdout,
                 cs_vars, gs_vars>>

\* show mode, no functions: warn
ShowWarn ==
  /\ main_pc = "report"
  /\ mode = "show"
  /\ Len(stats) = 0
  /\ stdout' = Append(stdout, Warning(target))
  /\ NextTarget
  /\ UNCHANGED <<targets, mode, source, files, stats, handle, row, combined,
                 cs_vars, gs_vars>>

\* show mode: print the names of every function of the file
Show ==
  /\ main_pc = "report"
  /\ mode = "show"
  /\ Len(stats) # 0
  /\ stdout' = stdout \o << FileLine(target) >>
                 \o [i \in 1..Len(stats) |-> FunctionLines(stats[i])]
  /\ NextTarget
  /\ UNCHANGED <<targets, mode, source, files, stats, handle, row, combined,
                 cs_vars, gs_vars>>

\* list-calls mode: gather the called names, methods with a dot
ListCalls ==
  /\ main_pc = "report"
  /\ mode = "list-calls"
  /\ combined' = combined
       \cup UNION { stats[i].called_functions : i \in 1..Len(stats) }
       \cup UNION { {Dot[mc] : mc \in stats[i].called_methods} :
                    i \in 1..Len(stats) }
  /\ NextTarget
  /\ UNCHANGED <<targets, mode, source, files, stats, handle, row, stdout,
                 cs_vars, gs_vars>>

\* list-attrs mode: gather the resolved attributes
ListAttrs ==
  /\ main_pc = "report"
  /\ mode = "list-attrs"
  /\ combined' = combined
       \cup UNION { stats[i].resolved_attributes : i \in 1..Len(stats) }
  /\ NextTarget
  /\ UNCHANGED <<targets, mode, source, files, stats, handle, row, stdout,
                 cs_vars, gs_vars>>

\* after the loop: the list modes print the sorted names
Finish ==
  /\ main_pc = "loop"
  /\ pos > Len(targets)
  /\ stdout' = IF mode \in {"list-calls", "list-attrs"}
               THEN stdout \o [i \in 1..Len(Sorted(combined)) |->
                                 NameLine(Sorted(combined)[i])]
               ELSE stdout
  /\ main_pc' = "done"
  /\ UNCHANGED <<targets, mode, source, files, pos, stats, handle, row,
                 combined, cs_vars, gs_vars>>

\* a run of the script: a mode, one to MaxTargets targets, and the files
\* that are there when it starts
InitMain ==
  /\ targets \in UNION { [1..n -> Targets] : n \in 1..MaxTargets }
  /\ mode \in Modes
  /\ source \in [Targets -> Sources]
  /\ files \in [Paths -> {Absent, Old}]
  /\ pos = 1
  /\ stats = << >>
  /\ handle = ""
  /\ row = 0
  /\ combined = {}
  /\ stdout = << >>
  /\ main_pc = "loop"
  /\ CsIdle
  /\ GsIdle

NextMain ==
  \/ Load
  \/ StatsWarn \/ StatsAbort \/ StatsOpen \/ StatsHeader \/ StatsRow
  \/ StatsClose
  \/ ShowWarn \/ Show
  \/ ListCalls \/ ListAttrs
  \/ Finish

SpecMain == InitMain /\ [][NextMain]_vars

----------------------------------------------------------------------------
(* Properties of collect_stats, under Spec *)

\* the nodes of ast.walk(node[a]) visited so far
Seen(a) == DOMAIN ast_walk(node[a]) \ todo[a]

\* how many visited nodes are of one of the classes in K
SeenOf(a, K) ==
  Cardinality({i \in Seen(a) : ast_walk(node[a])[i].kind \in K})

Walking(a) == pc[a] \in {"walk", "returned"}

\* the visited calls of aggregation a whose callee is of class c
SeenCalls(a, c) ==
  {i \in Seen(a) : /\ ast_walk(node[a])[i].kind = "Call"
                   /\ ast_walk(node[a])[i].func.kind = c}

\* C2: every scalar count of the record equals the number of nodes of the
\* matching classes among the nodes visited, hence among all nodes of the
\* subtree (nested definitions included) once the walk is over; nodes of
\* other classes change no count.
C2_Counts ==
  Walking(1) =>
    /\ result[1].conditionals = SeenOf(1, {"If", "IfExp"})
    /\ result[1].loops = SeenOf(1, {"For", "AsyncFor", "While"})
    /\ result[1].comprehensions = SeenOf(1, {"ListComp", "SetComp", "DictComp"})
    /\ result[1].assignments = SeenOf(1, {"Assign", "AugAssign", "AnnAssign"})
    /\ result[1].returns = SeenOf(1, {"Return"})
    /\ result[1].calls = SeenOf(1, {"Call"})

\* an if with an elif inside a nested function definition, all counted
C2_Witness ==
  /\ pc[1] = "returned"
  /\ result[1].conditionals = 2
  /\ \E i \in DOMAIN node[1].nodes : node[1].nodes[i].kind \in FunctionDefs

\* C3: after every node visit and in the returned record, calls is at
\* least recursive_calls and at least the sum of the sizes of
\* called_functions and called_methods.
C3_CountSetConsistency ==
  Walking(1) =>
    /\ result[1].calls >= result[1].recursive_calls
    /\ result[1].calls >= Cardinality(result[1].called_functions)
                            + Cardinality(result[1].called_methods)

\* two calls, one of them of a call result: one name for two calls
C3_Witness ==
  /\ pc[1] = "returned"
  /\ result[1].calls = 2
  /\ result[1].recursive_calls = 1
  /\ Cardinality(result[1].called_functions)
       + Cardinality(result[1].called_methods) = 1

\* C4: recursive_calls is the number of calls whose callee is a Name with
\* the function's own name; a method call of that name counts for nothing;
\* every Name callee is in called_functions, so a recursive call puts the
\* function's name there.
C4_RecursiveCalls ==
  pc[1] = "returned" =>
    LET w == ast_walk(node[1]) IN
      /\ result[1].recursive_calls =
           Cardinality({i \in SeenCalls(1, "Name") :
                          w[i].func.id = node[1].name})
      /\ result[1].called_functions =
           {w[i].func.id : i \in SeenCalls(1, "Name")}
      /\ result[1].recursive_calls > 0 =>
           node[1].name \in result[1].called_functions

\* the function calls a method of its own name and nothing else
C4_Witness ==
  /\ pc[1] = "returned"
  /\ \E i \in DOMAIN node[1].nodes :
       /\ node[1].nodes[i].kind = "Call"
       /\ node[1].nodes[i].func.kind = "Attribute"
       /\ node[1].nodes[i].func.attr = node[1].name
  /\ result[1].recursive_calls = 0
  /\ result[1].calls = 1

\* C5: in the returned record resolved_attributes holds exactly the
\* attributes of the Attribute nodes of the subtree, callees of calls
\* included, so called_methods is a subset of it.
C5_ResolvedAttributes ==
  pc[1] = "returned" =>
    LET w == ast_walk(node[1]) IN
      /\ result[1].resolved_attributes =
           {w[i].attr : i \in {j \in DOMAIN w : w[j].kind = "Attribute"}}
      /\ result[1].called_methods \subseteq result[1].resolved_attributes

\* one attribute is called, another is only read
C5_Witness ==
  /\ pc[1] = "returned"
  /\ result[1].called_methods = {"g"}
  /\ result[1].resolved_attributes = {"f", "g"}

----------------------------------------------------------------------------
(* Properties of collect_stats, under SpecPar *)

\* C10: whatever the order of the visits, however the visits of two
\* aggregations interleave and however often a function is aggregated,
\* every returned record is the one the function's subtree determines.
C10_Determined ==
  \A a \in Aggs :
    /\ pc[a] = "returned" => result[a] = collect_stats(node[a])
    /\ \A i \in DOMAIN returned[a] : returned[a][i] = collect_stats(node[a])

\* both aggregations returned twice, each with counts of its own
C10_Witness ==
  /\ \A a \in Aggs : pc[a] = "returned" /\ Len(returned[a]) = 2
  /\ result[1].loops = 1
  /\ result[2].calls = 1

----------------------------------------------------------------------------
(* Properties of get_stats, under SpecEnum *)

IsFunctionDef(s) == s.kind = "FunctionDef" \/ s.kind = "AsyncFunctionDef"

\* C1: one record per function definition standing directly in the body,
\* in the order of the body; equal names give separate records, and a
\* definition beneath a top-level statement gives none.
C1_Enumeration ==
  (gs_pc = "returned" /\ gs_node.body_is_list) =>
    LET fns == SelectSeq(gs_node.body, IsFunctionDef) IN
      /\ Len(results) = Len(fns)
      /\ \A i \in 1..Len(fns) : results[i].name = fns[i].name

\* two definitions of one name, the first with a definition nested in it
C1_Witness ==
  /\ gs_pc = "returned"
  /\ Len(gs_node.body) = 2
  /\ gs_node.body[1].kind = "FunctionDef"
  /\ gs_node.body[2].kind = "AsyncFunctionDef"
  /\ gs_node.body[1].name = gs_node.body[2].name
  /\ \E i \in DOMAIN gs_node.body[1].nodes :
       gs_node.body[1].nodes[i].kind \in FunctionDefs
  /\ Len(results) = 2

BadShape == ~gs_node.has_body \/ ~gs_node.body_is_list

\* C6 as claimed: for a node without a body attribute, and equally for a
\* node whose body is no statement list, get_stats never raises and
\* returns an empty list.
C6_Original ==
  BadShape =>
    /\ gs_pc # "raised"
    /\ gs_pc = "returned" => results = << >>

\* C6 amended: for a node without a body attribute get_stats never raises
\* and returns an empty list; for a node whose body is a single node and no
\* list it never returns, the loop over the body raises.
C6_Amended ==
  /\ ~gs_node.has_body =>
       /\ gs_pc # "raised"
       /\ gs_pc = "returned" => results = << >>
  /\ (gs_node.has_body /\ ~gs_node.body_is_list) => gs_pc # "returned"

\* a node without a body attribute was handed in and the call returned
C6_Witness ==
  /\ ~gs_node.has_body
  /\ gs_pc = "returned"
  /\ results = << >>

----------------------------------------------------------------------------
(* Properties of the main block, under SpecMain *)

\* the records of target number j
StatsOf(j) == get_stats(source[targets[j]].tree)

\* the destination of target t as a finished run of the loop body leaves it
Complete(t) ==
  [exists |-> TRUE,
   lines |-> << COLUMNS >>
             \o [i \in 1..Len(get_stats(source[t].tree)) |->
                   Vals(get_stats(source[t].tree)[i])]]

\* C7 as claimed: when the run aborts on an existing destination, the run
\* has created or written no output file for any target.
C7_Original ==
  main_pc = "aborted" => \A p \in Paths : files[p] \in {Absent, Old}

\* C7 amended: when the run aborts on an existing destination, no file is
\* open or partly written: every destination is absent, as it was before
\* the run, or written in full; the destinations of the targets before the
\* offending one that have functions have been written in full and stay,
\* and no destination of a target that only comes later has been created
\* or written.
C7_Amended ==
  main_pc = "aborted" =>
    /\ handle = ""
    /\ files[out].exists
    /\ \A t \in Targets : files[Csv[t]] \in {Absent, Old, Complete(t)}
    /\ \A j \in 1..(pos - 1) :
         Len(StatsOf(j)) # 0 => files[Csv[targets[j]]] = Complete(targets[j])
    /\ \A t \in Targets :
         (\A j \in 1..(pos - 1) : targets[j] # t) =>
           files[Csv[t]] \in {Absent, Old}

\* the run aborted at its second target with the first one's file written
C7_Witness ==
  /\ main_pc = "aborted"
  /\ pos = 2
  /\ targets[1] # targets[2]
  /\ files[Csv[targets[1]]] = Complete(targets[1])
  /\ files[out] = Old

\* C8: a destination that exists and is not open for writing by the run is
\* neither opened nor changed by any step; no file is open when a target is
\* reached; and a target without functions opens and writes nothing.
C8_NoClobber ==
  [][ /\ \A p \in Paths :
           (files[p].exists /\ handle # p) =>
             (files'[p] = files[p] /\ handle' # p)
      /\ main_pc \in {"loop", "report"} => handle = ""
      /\ (main_pc = "report" /\ Len(stats) = 0) =>
           (files' = files /\ handle' = "")
    ]_vars

\* the first target's destination was there, the run stopped and left it
C8_Witness ==
  /\ main_pc = "aborted"
  /\ pos = 1
  /\ files[out] = Old
  /\ mode = "stats"

NoFunctions(j) ==
  \A i \in DOMAIN source[targets[j]].tree.body :
    ~IsFunctionDef(source[targets[j]].tree.body[i])

InStdout(l) == \E i \in DOMAIN stdout : stdout[i] = l

\* C9 as claimed: in every mode, each module without top-level functions
\* that the loop has passed has brought a warning.
C9_Original ==
  \A j \in 1..Len(targets) :
    (j < pos /\ source[targets[j]].ok /\ NoFunctions(j)) =>
      InStdout(Warning(targets[j]))

\* C9 amended: in every mode a module without top-level functions yields
\* no records, and the step that reports on it changes no file, does not
\* end the run and moves on to the next target; it prints the warning in
\* the modes stats and show and prints nothing in the modes list-calls and
\* list-attrs.
C9_Amended ==
  [][ (main_pc = "report" /\ NoFunctions(pos)) =>
        /\ stats = << >>
        /\ main_pc' = "loop"
        /\ pos' = pos + 1
        /\ files' = files
        /\ stdout' = IF mode \in {"stats", "show"}
                     THEN Append(stdout, Warning(target))
                     ELSE stdout
    ]_vars

\* a list mode passed a module without functions in silence and went on
C9_Witness ==
  /\ mode = "list-calls"
  /\ Len(targets) = 2
  /\ pos = 2
  /\ main_pc = "report"
  /\ NoFunctions(1)
  /\ stdout = << >>
  /\ Len(stats) # 0

=============================================================================
